---------------------------- MODULE Spec2Model ----------------------------
(***************************************************************************)
(* A state-machine model of CarGame.py: the race state (GameInfo), the     *)
(* player car and the AI car (AbstractCar / PlayerCar / ComputerCar), the  *)
(* per-tick input, AI and collision handlers and the main loop with its    *)
(* wait-for-start sub-loop.                                                *)
(*                                                                         *)
(* Units.  Speeds are counted in twentieths of a pixel per tick, so that   *)
(* acceleration 0.1 is 2, friction 0.05 is 1, the per-level ramp 0.2 is 4, *)
(* PlayerCar(4, 4) has max_speed 80 and ComputerCar(2, 4, ...) has 40.     *)
(* Headings are whole degrees.  Arithmetic is exact (the rounding of       *)
(* Python floats is not modelled).                                         *)
(*                                                                         *)
(* Positions.  (x_pos, y_pos) is abstracted to START (the car was put at   *)
(* its START_POSITION and has not been displaced since) or TRACK (it has   *)
(* been displaced, to wherever).  What a mask query or the waypoint        *)
(* rectangle test answers for a car on the TRACK is an input of the        *)
(* handler; at START neither mask nor any waypoint is touched.             *)
(***************************************************************************)
EXTENDS Integers, Sequences, FiniteSets

VARIABLES
    pc,          \* position of the main program (see the actions)
    run,         \* the main loop's flag (line 258)
    pygame_up,   \* FALSE once pygame.quit() has been called
    race_state,  \* GameInfo: [stage, in_progress]
    player,      \* PlayerCar: [pos, heading, speed, max_speed, turn_speed]
    opponent,    \* ComputerCar: the same plus waypoint_index
    edge_poi,                    \* handle_collision: player vs TRACK_EDGE_MASK
    computer_finish_poi_collide, \* handle_collision: line 241
    player_finish_poi_collide,   \* handle_collision: line 250
    desired_angle,               \* compute_angle: the desired heading, in degrees
    tick_start_index             \* opponent.waypoint_index when the iteration began

vars == <<pc, run, pygame_up, race_state, player, opponent, edge_poi,
          computer_finish_poi_collide, player_finish_poi_collide,
          desired_angle, tick_start_index>>

---------------------------------------------------------------------------
(* Program constants *)

LEVELS == 10
ACCELERATION == 2
LEVEL_SPEED_STEP == 4
PLAYER_MAX_SPEED == 80
PLAYER_TURN_SPEED == 4
AI_MAX_SPEED == 40
AI_TURN_SPEED == 4

(* Bounds of the model *)

\* number of waypoints of the AI car's route (WAYPOINTS, line 27, has 22)
NumWaypoints == 2
\* the player's heading stays within 0..MaxTurns turn steps
MaxTurns == 1
\* events returned by one pygame.event.get() call
MaxEvents == 2
\* desired headings offered to the AI in the game: 0, 8, ..., 8 * MaxDesiredSteps
MaxDesiredSteps == 1
\* headings tried by the steering specification: -MaxSteerHeading..MaxSteerHeading
MaxSteerHeading == 560

Min(a, b) == IF a <= b THEN a ELSE b
Max(a, b) == IF a >= b THEN a ELSE b
Abs(a) == IF a >= 0 THEN a ELSE -a

NoPoi == "None"
Keys == {"a", "d", "w", "s"}
EventTypes == {"QUIT", "KEYDOWN", "OTHER"}
EventLists == UNION {[1..n -> EventTypes] : n \in 0..MaxEvents}

---------------------------------------------------------------------------
(* GameInfo.  stage_start_time and get_stage_time read the wall clock and  *)
(* feed the HUD only; they are left out.                                   *)

GameInfo_init == [stage |-> 1, in_progress |-> FALSE]

GameInfo_advance_level(rs) == [stage |-> rs.stage + 1, in_progress |-> FALSE]

GameInfo_reset_state_keeps_stage(rs) == [rs EXCEPT !.in_progress = FALSE]
GameInfo_reset_state(rs) == [stage |-> 1, in_progress |-> FALSE]

is_game_finished_late(rs) == rs.stage > LEVELS + 1
is_game_finished(rs) == rs.stage > LEVELS

start_stage(rs) == [rs EXCEPT !.in_progress = TRUE]

---------------------------------------------------------------------------
(* AbstractCar *)

PlayerCar_init ==
    [pos |-> "START", heading |-> 0, speed |-> 0,
     max_speed |-> PLAYER_MAX_SPEED, turn_speed |-> PLAYER_TURN_SPEED]

ComputerCar_init ==
    [pos |-> "START", heading |-> 0, speed |-> AI_MAX_SPEED,
     max_speed |-> AI_MAX_SPEED, turn_speed |-> AI_TURN_SPEED,
     waypoint_index |-> 0]

rotate(car, left, right) ==
    IF left THEN [car EXCEPT !.heading = @ + car.turn_speed]
    ELSE IF right THEN [car EXCEPT !.heading = @ - car.turn_speed]
    ELSE car

\* AbstractCar.update_motion: with speed 0 both products are 0 and the
\* position is unchanged, otherwise the car is displaced
update_motion(car) ==
    IF car.speed = 0 THEN car ELSE [car EXCEPT !.pos = "TRACK"]

accelerate_forward_unclamped(car) ==
    update_motion([car EXCEPT !.speed = @ + ACCELERATION])
accelerate_forward(car) ==
    update_motion([car EXCEPT !.speed = Min(@ + ACCELERATION, car.max_speed)])

accelerate_backward(car) ==
    update_motion(
        [car EXCEPT !.speed = Max(@ - ACCELERATION, -(car.max_speed \div 2))])

\* what mask.overlap can return for a car at `pos`; for the finish mask the
\* point of intersection is told apart by its vertical coordinate
EdgeOverlaps(pos) == IF pos = "START" THEN {FALSE} ELSE BOOLEAN
FinishOverlaps(pos) == IF pos = "START" THEN {NoPoi} ELSE {NoPoi, "y0", "ypos"}

reset_state(car) == [car EXCEPT !.pos = "START", !.heading = 0, !.speed = 0]

---------------------------------------------------------------------------
(* PlayerCar *)

apply_friction_unclamped(car) ==
    update_motion([car EXCEPT !.speed = @ - ACCELERATION \div 2])
apply_friction(car) ==
    update_motion([car EXCEPT !.speed = Max(@ - ACCELERATION \div 2, 0)])

bounce(car) == update_motion([car EXCEPT !.speed = -@])

---------------------------------------------------------------------------
(* ComputerCar *)

\* the turn toward `desired`, the heading math.degrees(desired_angle_rad)
compute_angle_no_min(car, desired) ==
    LET raw == car.heading - desired
        angle_delta == IF raw >= 180 THEN raw - 360 ELSE raw
    IN  IF angle_delta > 0
        THEN [car EXCEPT !.heading = @ - car.turn_speed]
        ELSE [car EXCEPT !.heading = @ + car.turn_speed]
compute_angle(car, desired) ==
    LET raw == car.heading - desired
        angle_delta == IF raw >= 180 THEN raw - 360 ELSE raw
    IN  IF angle_delta > 0
        THEN [car EXCEPT !.heading = @ - Min(car.turn_speed, Abs(angle_delta))]
        ELSE [car EXCEPT !.heading = @ + Min(car.turn_speed, Abs(angle_delta))]

\* rect.collidepoint(*target): whether the sprite rectangle holds the waypoint
WaypointHits(pos) == IF pos = "START" THEN {FALSE} ELSE BOOLEAN

advance_waypoint_wrap(car, hit) ==
    IF hit THEN [car EXCEPT !.waypoint_index = (@ + 1) % NumWaypoints] ELSE car
advance_waypoint(car, hit) ==
    IF hit THEN [car EXCEPT !.waypoint_index = @ + 1] ELSE car

ComputerCar_update_motion(car, desired, hit) ==
    IF car.waypoint_index >= NumWaypoints THEN car
    ELSE update_motion(advance_waypoint(compute_angle(car, desired), hit))

ComputerCar_advance_level_off_by_one(car, stage) ==
    [reset_state(car) EXCEPT
        !.speed = car.max_speed + stage * LEVEL_SPEED_STEP,
        !.waypoint_index = 0]
ComputerCar_advance_level(car, stage) ==
    [reset_state(car) EXCEPT
        !.speed = car.max_speed + (stage - 1) * LEVEL_SPEED_STEP,
        !.waypoint_index = 0]

---------------------------------------------------------------------------
(* move_player with the set of held keys *)

move_player(car, keys) ==
    LET p1 == IF "a" \in keys THEN rotate(car, TRUE, FALSE) ELSE car
        p2 == IF "d" \in keys THEN rotate(p1, FALSE, TRUE) ELSE p1
        p3 == IF "w" \in keys THEN accelerate_forward(p2) ELSE p2
        p4 == IF "s" \in keys THEN accelerate_backward(p3) ELSE p3
        moved == "w" \in keys \/ "s" \in keys
    IN  IF moved THEN p4 ELSE apply_friction(p4)

---------------------------------------------------------------------------
(* handle_collision.  A collision state holds the three objects and the    *)
(* three overlap results; each step returns the states it can produce.     *)

hc_edge(p, o, rs) ==
    {[player |-> IF e THEN bounce(p) ELSE p,
      opponent |-> o, race_state |-> rs, edge_poi |-> e,
      computer_finish_poi_collide |-> NoPoi,
      player_finish_poi_collide |-> NoPoi]
        : e \in EdgeOverlaps(p.pos)}

hc_computer_finish(st) ==
    {IF c # NoPoi
     THEN [st EXCEPT !.computer_finish_poi_collide = c,
                     !.race_state = GameInfo_reset_state(@),
                     !.player = reset_state(@),
                     !.opponent = reset_state(@)]
     ELSE st
        : c \in FinishOverlaps(st.opponent.pos)}

hc_player_finish(st) ==
    {IF f = NoPoi THEN st
     ELSE IF f = "y0"
     THEN [st EXCEPT !.player_finish_poi_collide = f, !.player = bounce(@)]
     ELSE LET rs2 == GameInfo_advance_level(st.race_state)
          IN  [st EXCEPT !.player_finish_poi_collide = f,
                         !.race_state = rs2,
                         !.player = reset_state(@),
                         !.opponent = ComputerCar_advance_level(@, rs2.stage)]
        : f \in FinishOverlaps(st.player.pos)}

handle_collision(p, o, rs) ==
    UNION {UNION {hc_player_finish(s2) : s2 \in hc_computer_finish(s1)}
            : s1 \in hc_edge(p, o, rs)}

---------------------------------------------------------------------------
(* The main program *)

Init ==
    /\ pc = "loop"
    /\ run = TRUE
    /\ pygame_up = TRUE
    /\ race_state = GameInfo_init
    /\ player = PlayerCar_init
    /\ opponent = ComputerCar_init
    /\ edge_poi = FALSE
    /\ computer_finish_poi_collide = NoPoi
    /\ player_finish_poi_collide = NoPoi
    /\ desired_angle = 0
    /\ tick_start_index = 0

\* the headings math.degrees(desired_angle_rad) the game offers the AI car
DesiredAngles == {8 * k : k \in 0..MaxDesiredSteps}

\* line 277: the condition of the wait-for-start sub-loop
WaitingForStart_never(rs) == FALSE
WaitingForStart(rs) == ~rs.in_progress

\* lines 282-288: the sub-loop's event pump over one pygame.event.get() list;
\* QUIT calls pygame.quit() and breaks out of the for loop only
RECURSIVE wait_events(_, _, _)
wait_events(evs, rs, up) ==
    IF evs = <<>> THEN [race_state |-> rs, pygame_up |-> up]
    ELSE IF Head(evs) = "QUIT" THEN [race_state |-> rs, pygame_up |-> FALSE]
    ELSE IF Head(evs) = "KEYDOWN" THEN wait_events(Tail(evs), start_stage(rs), up)
    ELSE wait_events(Tail(evs), rs, up)

\* lines 291-294: the main event pump
main_events(evs, r) ==
    IF \E i \in 1..Len(evs) : evs[i] = "QUIT" THEN FALSE ELSE r

\* lines 270-274: an iteration begins (clock tick and draw)
BeginIteration ==
    /\ pc = "loop" /\ run
    /\ pc' = "wait"
    /\ tick_start_index' = opponent.waypoint_index
    /\ UNCHANGED <<run, pygame_up, race_state, player, opponent, edge_poi,
                   computer_finish_poi_collide, player_finish_poi_collide,
                   desired_angle>>

\* line 308: the loop has ended, the final pygame.quit()
Shutdown ==
    /\ pc = "loop" /\ ~run
    /\ pc' = "done"
    /\ pygame_up' = FALSE
    /\ UNCHANGED <<run, race_state, player, opponent, edge_poi,
                   computer_finish_poi_collide, player_finish_poi_collide,
                   desired_angle, tick_start_index>>

\* lines 277-288: one pass of the sub-loop with pygame initialised
WaitPump ==
    /\ pc = "wait" /\ WaitingForStart(race_state) /\ pygame_up
    /\ \E evs \in EventLists :
         LET r == wait_events(evs, race_state, pygame_up)
         IN  /\ race_state' = r.race_state
             /\ pygame_up' = r.pygame_up
    /\ UNCHANGED <<pc, run, player, opponent, edge_poi,
                   computer_finish_poi_collide, player_finish_poi_collide,
                   desired_angle, tick_start_index>>

\* lines 278-279 after pygame.quit(): the blit on the closed display raises
\* pygame.error, which nothing catches
WaitAfterQuit ==
    /\ pc = "wait" /\ WaitingForStart(race_state) /\ ~pygame_up
    /\ pc' = "crashed"
    /\ UNCHANGED <<run, pygame_up, race_state, player, opponent, edge_poi,
                   computer_finish_poi_collide, player_finish_poi_collide,
                   desired_angle, tick_start_index>>

\* line 277: the sub-loop's condition is false
WaitExit ==
    /\ pc = "wait" /\ ~WaitingForStart(race_state)
    /\ pc' = "events"
    /\ UNCHANGED <<run, pygame_up, race_state, player, opponent, edge_poi,
                   computer_finish_poi_collide, player_finish_poi_collide,
                   desired_angle, tick_start_index>>

\* lines 291-294
MainEvents ==
    /\ pc = "events" /\ pygame_up
    /\ \E evs \in EventLists : run' = main_events(evs, run)
    /\ pc' = "move"
    /\ UNCHANGED <<pygame_up, race_state, player, opponent, edge_poi,
                   computer_finish_poi_collide, player_finish_poi_collide,
                   desired_angle, tick_start_index>>

\* line 291 after pygame.quit(): pygame.event.get() raises pygame.error
EventsAfterQuit ==
    /\ pc = "events" /\ ~pygame_up
    /\ pc' = "crashed"
    /\ UNCHANGED <<run, pygame_up, race_state, player, opponent, edge_poi,
                   computer_finish_poi_collide, player_finish_poi_collide,
                   desired_angle, tick_start_index>>

\* line 296
MovePlayer ==
    /\ pc = "move"
    /\ \E keys \in SUBSET Keys :
         /\ player' = move_player(player, keys)
         /\ player'.heading \in 0..(MaxTurns * player.turn_speed)
    /\ pc' = "ai"
    /\ UNCHANGED <<run, pygame_up, race_state, opponent, edge_poi,
                   computer_finish_poi_collide, player_finish_poi_collide,
                   desired_angle, tick_start_index>>

\* line 297
UpdateOpponent ==
    /\ pc = "ai"
    /\ \E d \in DesiredAngles, hit \in WaypointHits(opponent.pos) :
         opponent' = ComputerCar_update_motion(opponent, d, hit)
    /\ pc' = "collide"
    /\ UNCHANGED <<run, pygame_up, race_state, player, edge_poi,
                   computer_finish_poi_collide, player_finish_poi_collide,
                   desired_angle, tick_start_index>>

\* line 298
HandleCollision ==
    /\ pc = "collide"
    /\ \E st \in handle_collision(player, opponent, race_state) :
         /\ player' = st.player
         /\ opponent' = st.opponent
         /\ race_state' = st.race_state
         /\ edge_poi' = st.edge_poi
         /\ computer_finish_poi_collide' = st.computer_finish_poi_collide
         /\ player_finish_poi_collide' = st.player_finish_poi_collide
    /\ pc' = "finished"
    /\ UNCHANGED <<run, pygame_up, desired_angle, tick_start_index>>

\* lines 300-305; handle_collision's locals are gone
GameFinished ==
    /\ pc = "finished"
    /\ IF is_game_finished(race_state)
       THEN /\ race_state' = GameInfo_reset_state(race_state)
            /\ player' = reset_state(player)
            /\ opponent' = reset_state(opponent)
       ELSE UNCHANGED <<race_state, player, opponent>>
    /\ edge_poi' = FALSE
    /\ computer_finish_poi_collide' = NoPoi
    /\ player_finish_poi_collide' = NoPoi
    /\ pc' = "loop"
    /\ UNCHANGED <<run, pygame_up, desired_angle, tick_start_index>>

Next ==
    \/ BeginIteration
    \/ Shutdown
    \/ WaitPump
    \/ WaitAfterQuit
    \/ WaitExit
    \/ MainEvents
    \/ EventsAfterQuit
    \/ MovePlayer
    \/ UpdateOpponent
    \/ HandleCollision
    \/ GameFinished

Spec == Init /\ [][Next]_vars

---------------------------------------------------------------------------
(* PlayerCar.apply_friction on its own: called again and again, with no    *)
(* other input, from any speed a bounce or a reversal can leave.           *)

InitFriction ==
    /\ pc = "friction"
    /\ run = TRUE
    /\ pygame_up = TRUE
    /\ race_state = start_stage(GameInfo_init)
    /\ player \in {[PlayerCar_init EXCEPT !.speed = v, !.pos = "TRACK"]
                     : v \in (-PLAYER_MAX_SPEED)..PLAYER_MAX_SPEED}
    /\ opponent = ComputerCar_init
    /\ edge_poi = FALSE
    /\ computer_finish_poi_collide = NoPoi
    /\ player_finish_poi_collide = NoPoi
    /\ desired_angle = 0
    /\ tick_start_index = 0

\* lines 234-235 with no key held
FrictionStep ==
    /\ pc \in {"friction", "friction_again"}
    /\ player' = apply_friction(player)
    /\ pc' = "friction_again"
    /\ UNCHANGED <<run, pygame_up, race_state, opponent, edge_poi,
                   computer_finish_poi_collide, player_finish_poi_collide,
                   desired_angle, tick_start_index>>

NextFriction == FrictionStep

SpecFriction ==
    InitFriction /\ [][NextFriction]_vars /\ WF_vars(FrictionStep)

---------------------------------------------------------------------------
(* ComputerCar.compute_angle on its own: one call for every heading and    *)
(* desired heading of the bounded sets.  atan gives (-90, 90) degrees and  *)
(* a target below the car adds 180, so desired headings lie in (-90, 270). *)

SteerDesired == {-88, 0, 90, 180, 268}

InitSteer ==
    /\ pc = "steer"
    /\ run = TRUE
    /\ pygame_up = TRUE
    /\ race_state = start_stage(GameInfo_init)
    /\ player = PlayerCar_init
    /\ opponent \in {[ComputerCar_init EXCEPT !.heading = h, !.pos = "TRACK"]
                       : h \in (-MaxSteerHeading)..MaxSteerHeading}
    /\ edge_poi = FALSE
    /\ computer_finish_poi_collide = NoPoi
    /\ player_finish_poi_collide = NoPoi
    /\ desired_angle \in SteerDesired
    /\ tick_start_index = 0

\* line 185
SteerStep ==
    /\ pc = "steer"
    /\ opponent' = compute_angle(opponent, desired_angle)
    /\ pc' = "steered"
    /\ UNCHANGED <<run, pygame_up, race_state, player, edge_poi,
                   computer_finish_poi_collide, player_finish_poi_collide,
                   desired_angle, tick_start_index>>

NextSteer == SteerStep

SpecSteer == InitSteer /\ [][NextSteer]_vars

---------------------------------------------------------------------------
(* Properties *)

\* C1 as stated: in every reachable state the speed of each car lies
\* within [-max_speed/2, max_speed] of that car.
C1_SpeedWithinHalfMaxAndMax ==
    /\ player.speed \in (-(player.max_speed \div 2))..player.max_speed
    /\ opponent.speed \in (-(opponent.max_speed \div 2))..opponent.max_speed

\* C1 amended: the player's speed lies within [-max_speed, max_speed] (a
\* bounce negates any forward speed) and the AI car's speed within
\* [0, max_speed + LEVELS * 0.2] (advance_level sets it above max_speed).
C1_SpeedBounds ==
    /\ player.speed \in (-player.max_speed)..player.max_speed
    /\ opponent.speed \in 0..(opponent.max_speed + LEVELS * LEVEL_SPEED_STEP)

\* the player bounced at full speed, and the AI car runs above its max_speed
C1_Witness ==
    /\ player.speed = -player.max_speed
    /\ opponent.speed > opponent.max_speed

\* C2: whenever the race is reset (the AI car reached the finish line, or
\* the player completed the last stage), the AI car is back in its initial
\* configuration once the reset completes: start position, heading 0,
\* speed max_speed and waypoint index 0.
C2_ResetRestoresOpponent ==
    [][((pc = "collide" /\ computer_finish_poi_collide' # NoPoi)
          \/ (pc = "finished" /\ is_game_finished(race_state)))
       => opponent' = ComputerCar_init]_vars

\* C3 as stated: the AI car's waypoint index at the end of an iteration is
\* never below the index at its beginning.
C3_IndexNeverDecreases ==
    [][pc = "finished" => opponent'.waypoint_index >= tick_start_index]_vars

\* C3 amended: the AI car's waypoint index at the end of an iteration is
\* never below the index at its beginning, except in an iteration whose
\* collision handling credits the player with a stage, which ends with
\* index 0; a race reset leaves the index as it is.
C3_IndexDecreasesOnlyOnCredit ==
    [][pc = "finished" =>
        IF player_finish_poi_collide = "ypos"
        THEN opponent'.waypoint_index = 0
        ELSE opponent'.waypoint_index >= tick_start_index]_vars

\* the player is credited in an iteration the AI car began past waypoint 0
C3_Witness ==
    /\ pc = "finished"
    /\ player_finish_poi_collide = "ypos"
    /\ tick_start_index > 0
    /\ opponent.waypoint_index = 0

\* C4: a window-close request ends the program cleanly from every state it
\* can arrive in: pygame is shut down only by the final pygame.quit() that
\* follows the main loop, so nothing runs on a closed display.
C4_CloseIsClean == ~pygame_up => pc = "done"

\* C5: when collision handling finds the AI car on the finish line, it ends
\* with stage 1, in_progress false and both cars at their start positions.
C5_OpponentFinishResetsRace ==
    (pc = "finished" /\ computer_finish_poi_collide # NoPoi) =>
        /\ race_state.stage = 1
        /\ ~race_state.in_progress
        /\ player.pos = "START"
        /\ opponent.pos = "START"

\* the AI car reached the finish line in a later iteration in which the
\* player also hit the border
C5_Witness ==
    /\ pc = "finished"
    /\ computer_finish_poi_collide # NoPoi
    /\ edge_poi
    /\ tick_start_index > 0

\* C6: when the player overlaps the finish line, the stage is credited iff
\* the overlap point's vertical coordinate is not 0: then stage grows by
\* exactly 1, in_progress is false, the player is at START with heading 0
\* and speed 0, and the AI car is at START with waypoint index 0 and speed
\* max_speed + (new stage - 1) * 0.2; with coordinate 0 the player's speed
\* is negated and stage, in_progress and the AI car are as the check found
\* them.
C6_PlayerFinish ==
    [][pc = "collide" =>
        LET lost == computer_finish_poi_collide' # NoPoi
            stage1 == IF lost THEN 1 ELSE race_state.stage
            progress1 == IF lost THEN FALSE ELSE race_state.in_progress
            speed1 == IF lost THEN 0
                      ELSE IF edge_poi' THEN -player.speed ELSE player.speed
            opponent1 == IF lost
                         THEN [opponent EXCEPT !.pos = "START", !.heading = 0,
                                               !.speed = 0]
                         ELSE opponent
        IN  /\ player_finish_poi_collide' = "ypos" =>
                /\ race_state'.stage = stage1 + 1
                /\ ~race_state'.in_progress
                /\ player'.pos = "START"
                /\ player'.heading = 0
                /\ player'.speed = 0
                /\ opponent'.pos = "START"
                /\ opponent'.waypoint_index = 0
                /\ opponent'.speed = opponent.max_speed
                       + (race_state'.stage - 1) * LEVEL_SPEED_STEP
            /\ player_finish_poi_collide' = "y0" =>
                /\ player'.speed = -speed1
                /\ race_state'.stage = stage1
                /\ race_state'.in_progress = progress1
                /\ opponent' = opponent1]_vars

\* stage 1 was credited: stage 2, AI speed max_speed + 0.2
C6_Witness ==
    /\ pc = "finished"
    /\ player_finish_poi_collide = "ypos"
    /\ race_state.stage = 2
    /\ opponent.speed = opponent.max_speed + LEVEL_SPEED_STEP
    /\ player.pos = "START"

\* C7: stage stays within 1..11, is_game_finished holds exactly when
\* stage > 10, and stage 11 exists only between handle_collision and the
\* game-finished check of the same iteration.
C7_StageRange ==
    /\ race_state.stage \in 1..11
    /\ is_game_finished(race_state) <=> race_state.stage > 10
    /\ pc # "finished" => race_state.stage \in 1..10

\* stage 10 has just been completed
C7_Witness == pc = "finished" /\ race_state.stage = 11

\* C8: apply_friction never leaves the speed below 0, and called again and
\* again it brings the speed to 0 and keeps it there.
C8_Friction ==
    /\ [][player'.speed >= 0]_vars
    /\ <>[](player.speed = 0)

\* friction has been applied and the car stands
C8_Witness == pc = "friction_again" /\ player.speed = 0

\* the angle between two headings, in 0..180
AngleBetween(a, b) == Min((a - b) % 360, (b - a) % 360)

\* C9 as stated: one compute_angle call sets the heading to D when
\* |H - D| <= turn rate, and otherwise changes it by exactly the turn rate
\* in a direction that brings it closer to D (as a number, or as an angle).
C9_SteersTowardDesired ==
    [][pc = "steer" =>
        LET H == opponent.heading
            H2 == opponent'.heading
            D == desired_angle
        IN  IF Abs(H - D) <= opponent.turn_speed
            THEN H2 = D
            ELSE /\ Abs(H2 - H) = opponent.turn_speed
                 /\ \/ Abs(H2 - D) < Abs(H - D)
                    \/ AngleBetween(H2, D) < AngleBetween(H, D)]_vars

\* C9 amended: with T = D when H - D < 180 and T = D + 360 when
\* H - D >= 180, one compute_angle call sets the heading to T when
\* |H - T| <= turn rate, and otherwise changes it by exactly the turn rate
\* toward T.
C9_SteersTowardWrappedDesired ==
    [][pc = "steer" =>
        LET H == opponent.heading
            H2 == opponent'.heading
            T == IF H - desired_angle >= 180
                 THEN desired_angle + 360 ELSE desired_angle
        IN  IF Abs(H - T) <= opponent.turn_speed
            THEN H2 = T
            ELSE /\ Abs(H2 - H) = opponent.turn_speed
                 /\ Abs(H2 - T) < Abs(H - T)]_vars

\* a heading one turn short of D + 360 was set to D + 360, not to D
C9_Witness ==
    /\ pc = "steered"
    /\ opponent.heading = desired_angle + 360

============================================================================
